---- MODULE Spec2Model ----
(***************************************************************************)
(* Model of mkdocs_gallery/py_source_parser.py.                            *)
(*                                                                         *)
(* A text is a sequence of tokens.  Every token is the string it stands    *)
(* for, so the Python text modelled by a sequence is the concatenation of  *)
(* its tokens.  Most tokens are single characters; the few longer ones     *)
(* ("mkdocs_gallery_", "%%", the run of 20 hashes, the triple quote, the   *)
(* literal "{[]}") are strings that the patterns of the module can only    *)
(* match or skip as a whole over this alphabet.                            *)
(*                                                                         *)
(* Positions are 1-based; a span (i, j) covers the tokens i .. j-1, as the *)
(* Python slice [i-1 : j-1] does.                                          *)
(***************************************************************************)
EXTENDS Naturals, Sequences, FiniteSets

VARIABLES pc, source_file, result, code_block, removed, file_conf

vars == <<pc, source_file, result, code_block, removed, file_conf>>

----------------------------------------------------------------------------
(* Character classes of the regular expressions, lifted to tokens.          *)

NL == "\n"

\* \s
Whitespace == {" ", "\n"}

\* [\ \t]
Blank == {" "}

\* [A-Za-z0-9_] : tokens all of whose characters are in the class
NameTokens == {"a", "b", "d", "x", "1", "mkdocs_gallery_"}

\* 20 and 19 consecutive '#' characters, as one token each
H20 == "####################"
H19 == "###################"

\* tokens made of '#' characters only
HashTokens == {"#", H20, H19}

HashCount(tok) == IF tok = "#" THEN 1 ELSE IF tok = H20 THEN 20 ELSE IF tok = H19 THEN 19 ELSE 0

----------------------------------------------------------------------------
(* Generic string helpers (Python str methods).                            *)

Min(S) == CHOOSE m \in S : \A n \in S : m <= n
Max(S) == CHOOSE m \in S : \A n \in S : m >= n

\* s[i-1 : j-1]
Slice(s, i, j) == IF j <= i THEN <<>> ELSE SubSeq(s, i, j - 1)

RECURSIVE SkipWhile(_, _, _)
\* the first position >= i whose token is not in class C (Len(s)+1 if none):
\* where a greedy C* started at i stops
SkipWhile(s, i, C) == IF i > Len(s) \/ s[i] \notin C THEN i ELSE SkipWhile(s, i + 1, C)

RECURSIVE LineEnd(_, _)
\* the position of the newline ending the line that holds position i
\* (Len(s)+1 on the last line): where a greedy .* started at i stops
LineEnd(s, i) == IF i > Len(s) \/ s[i] = NL THEN i ELSE LineEnd(s, i + 1)

\* ^ under re.MULTILINE
AtLineStart(s, i) == i = 1 \/ s[i - 1] = NL

RECURSIVE NewlinesBefore(_, _)
\* s[:i-1].count('\n')
NewlinesBefore(s, i) ==
    IF i <= 1 THEN 0
    ELSE NewlinesBefore(s, i - 1) + (IF i - 1 <= Len(s) /\ s[i - 1] = NL THEN 1 ELSE 0)

\* s.count('\n')
CountNewlines(s) == NewlinesBefore(s, Len(s) + 1)

\* bool(s.strip())
HasNonSpace(s) == \E j \in 1 .. Len(s) : s[j] \notin Whitespace

\* s.lstrip()
LStrip(s) == Slice(s, SkipWhile(s, 1, Whitespace), Len(s) + 1)

RECURSIVE SplitLinesFrom(_, _)
SplitLinesFrom(s, i) ==
    LET e == LineEnd(s, i)
    IN  IF e > Len(s) THEN <<Slice(s, i, e)>>
        ELSE <<Slice(s, i, e)>> \o SplitLinesFrom(s, e + 1)

\* s.split('\n')
SplitLines(s) == SplitLinesFrom(s, 1)

RECURSIVE JoinLines(_)
\* '\n'.join(lines)
JoinLines(lines) ==
    IF Len(lines) = 0 THEN <<>>
    ELSE IF Len(lines) = 1 THEN lines[1]
    ELSE lines[1] \o <<NL>> \o JoinLines(Tail(lines))

----------------------------------------------------------------------------
(* INFILE_CONFIG_PATTERN                                                   *)
(*   ^[\ \t]*#\s*mkdocs_gallery_([A-Za-z0-9_]+)(\s*=\s*(.+))?[\ \t]*\n?    *)
(* re.MULTILINE.  The attempt at a line start i, following the order in    *)
(* which the backtracking matcher tries things.                            *)

\* Where group 3, (.+), starts for an '=' at position p: after the greedy
\* \s*, or, when that ran to the end of the text, at the last token it can
\* give back that is not a newline.  0: group 2 does not match.
ValueStart(s, p) ==
    LET q == SkipWhile(s, p + 1, Whitespace)
        back == {r \in p + 1 .. Len(s) : s[r] # NL}
    IN  IF q <= Len(s) THEN q
        ELSE IF back = {} THEN 0 ELSE Max(back)

INFILE_CONFIG_PATTERN(s, i) ==
    LET j == SkipWhile(s, i, Blank)                  \* ^[\ \t]*
        k == SkipWhile(s, j + 1, Whitespace)         \* #\s*
        n == SkipWhile(s, k + 1, NameTokens)         \* mkdocs_gallery_([A-Za-z0-9_]+)
        p == SkipWhile(s, n, Whitespace)             \* (\s*=
        v == IF p <= Len(s) /\ s[p] = "=" THEN ValueStart(s, p) ELSE 0
        ve == LineEnd(s, v)                          \* (.+) runs to the end of its line
        b == IF v # 0 THEN ve ELSE SkipWhile(s, n, Blank)   \* [\ \t]*
        e == IF b <= Len(s) /\ s[b] = NL THEN b + 1 ELSE b  \* \n?
    IN  IF /\ AtLineStart(s, i)
           /\ j <= Len(s) /\ s[j] = "#"
           /\ k <= Len(s) /\ s[k] = "mkdocs_gallery_"
           /\ n > k + 1
        THEN [matched |-> TRUE, start |-> i, end |-> e,
              name |-> Slice(s, k + 1, n),
              has_value |-> v # 0,
              value |-> IF v # 0 THEN Slice(s, v, ve) ELSE <<>>]
        ELSE [matched |-> FALSE]

RECURSIVE ConfigMatchesFrom(_, _)
\* re.finditer(INFILE_CONFIG_PATTERN, s), scanning from position pos: the
\* leftmost match, then the matches from its end on
ConfigMatchesFrom(s, pos) ==
    LET m == INFILE_CONFIG_PATTERN(s, pos)
    IN  IF pos > Len(s) THEN <<>>
        ELSE IF m.matched THEN <<m>> \o ConfigMatchesFrom(s, m.end)
        ELSE ConfigMatchesFrom(s, pos + 1)

ConfigMatches(s) == ConfigMatchesFrom(s, 1)

----------------------------------------------------------------------------
(* ast.literal_eval on the values this alphabet can spell: leading blanks, *)
(* a trailing comment and trailing blanks are not part of the expression.  *)

\* the integer written as n digits "1"
RECURSIVE Ones(_)
Ones(n) == IF n = 0 THEN 0 ELSE 10 * Ones(n - 1) + 1

Expression(value) ==
    LET from == SkipWhile(value, 1, Blank)
        hashes == {j \in from .. Len(value) : value[j] \in HashTokens}
        to == IF hashes = {} THEN Len(value) + 1 ELSE Min(hashes)
        ends == {j \in from .. to - 1 : value[j] \notin Blank}
    IN  IF ends = {} THEN <<>> ELSE Slice(value, from, Max(ends) + 1)

literal_eval(value) ==
    LET e == Expression(value)
    IN  IF e = <<>> THEN [exc |-> "SyntaxError"]
        ELSE IF \A j \in 1 .. Len(e) : e[j] = "1" THEN [exc |-> "none", val |-> Ones(Len(e))]
        ELSE IF e = <<"{[]}">> THEN [exc |-> "TypeError"]
        ELSE IF e[1] # "1" /\ \A j \in 1 .. Len(e) : e[j] \in NameTokens
             THEN [exc |-> "ValueError"]
        ELSE [exc |-> "SyntaxError"]

----------------------------------------------------------------------------
(* extract_file_config                                                     *)

\* file_conf[name] = value
SetItem(conf, name, val) ==
    [k \in DOMAIN conf \cup {name} |-> IF k = name THEN val ELSE conf[k]]

\* the empty dict
EmptyConf == [k \in {} |-> 0]

RECURSIVE ExtractLoop(_, _, _, _)
\* the for loop over the matches, from the k-th on
ExtractLoop(matches, k, conf, warnings) ==
    IF k > Len(matches) THEN [raised |-> "none", file_conf |-> conf, warnings |-> warnings]
    ELSE LET m == matches[k]
             d == literal_eval(m.value)
         IN  IF ~m.has_value THEN ExtractLoop(matches, k + 1, conf, warnings)
             ELSE IF d.exc = "none"
                  THEN ExtractLoop(matches, k + 1, SetItem(conf, m.name, d.val), warnings)
             ELSE IF d.exc \in {"SyntaxError", "ValueError"}
                  THEN ExtractLoop(matches, k + 1, conf, Append(warnings, <<m.name, m.value>>))
             ELSE [raised |-> d.exc]

extract_file_config(content) == ExtractLoop(ConfigMatches(content), 1, EmptyConf, <<>>)

----------------------------------------------------------------------------
(* remove_config_comments                                                  *)

RECURSIVE RemoveMatches(_, _, _, _)
\* re.subn(pattern, '', s): the text outside the matches
RemoveMatches(s, matches, k, pos) ==
    IF k > Len(matches) THEN Slice(s, pos, Len(s) + 1)
    ELSE Slice(s, pos, matches[k].start) \o RemoveMatches(s, matches, k + 1, matches[k].end)

remove_config_comments(block) == RemoveMatches(block, ConfigMatches(block), 1, 1)

----------------------------------------------------------------------------
(* parse_source_file: read_text, '\r\n' -> '\n', ast.parse.                *)
(*                                                                         *)
(* ast.parse over the files of this model: an optional leading triple-     *)
(* quoted string statement, then lines that are blank, comments or the     *)
(* expression statement x.  Anything else (a string that is never closed,  *)
(* text after the closing quotes, any other line) is a SyntaxError.        *)

\* the triple quote
DQ3 == "\"\"\""

CRLF == "\r\n"

\* content.replace('\r\n', '\n')
NormalizeNewlines(text) == [j \in 1 .. Len(text) |-> IF text[j] = CRLF THEN NL ELSE text[j]]

\* a blank line or a comment line (nothing but blanks before the '#')
IsIgnorable(line) == Expression(line) = <<>>

\* a statement the parser accepts
IsStatement(line) == line = <<"x">>

\* the position of the quotes closing a string opened at position 1 (0: none)
ClosingQuote(content) ==
    LET closes == {j \in 2 .. Len(content) : content[j] = DQ3}
    IN  IF closes = {} THEN 0 ELSE Min(closes)

LinesParse(lines) == \A k \in 1 .. Len(lines) : IsIgnorable(lines[k]) \/ IsStatement(lines[k])

\* ast.parse(content): node None on a SyntaxError, else the Module with
\* whether its first statement is a string expression and that string's value
ast_parse(content) ==
    LET close == ClosingQuote(content)
        after == Slice(content, close + 1, Len(content) + 1)
    IN  IF Len(content) > 0 /\ content[1] = DQ3
        THEN IF /\ close # 0
                /\ IsIgnorable(Head(SplitLines(after)))
                /\ LinesParse(Tail(SplitLines(after)))
             THEN [node |-> "Module", has_docstring |-> TRUE, s |-> Slice(content, 2, close)]
             ELSE [node |-> "None"]
        ELSE IF LinesParse(SplitLines(content))
             THEN [node |-> "Module", has_docstring |-> FALSE]
             ELSE [node |-> "None"]

parse_source_file(file) ==
    LET content == NormalizeNewlines(file)
    IN  [node |-> ast_parse(content), content |-> content]

----------------------------------------------------------------------------
(* ast.get_docstring: inspect.cleandoc of the string's value.              *)

IsBlankLine(line) == \A j \in 1 .. Len(line) : line[j] \in Whitespace

Indent(line) == SkipWhile(line, 1, Whitespace) - 1

\* line[n:]
DropFirst(line, n) == Slice(line, n + 1, Len(line) + 1)

RECURSIVE PopTrailingEmpty(_)
PopTrailingEmpty(lines) ==
    IF Len(lines) > 0 /\ lines[Len(lines)] = <<>>
    THEN PopTrailingEmpty(SubSeq(lines, 1, Len(lines) - 1))
    ELSE lines

RECURSIVE PopLeadingEmpty(_)
PopLeadingEmpty(lines) ==
    IF Len(lines) > 0 /\ lines[1] = <<>> THEN PopLeadingEmpty(Tail(lines)) ELSE lines

cleandoc(doc) ==
    LET lines == SplitLines(doc)
        indents == {Indent(lines[k]) : k \in {k \in 2 .. Len(lines) : ~IsBlankLine(lines[k])}}
        cut == [k \in 1 .. Len(lines) |->
                   IF k = 1 THEN LStrip(lines[1])
                   ELSE IF indents = {} THEN lines[k]
                   ELSE DropFirst(lines[k], Min(indents))]
    IN  JoinLines(PopLeadingEmpty(PopTrailingEmpty(cut)))

----------------------------------------------------------------------------
(* _get_docstring_and_rest                                                 *)

SYNTAX_ERROR_DOCSTRING ==
    <<NL, "SyntaxError", NL, "===========", NL, NL,
      "Example script with invalid Python syntax", NL>>

\* the end row of the first string token that tokenize reports
FirstStringEndRow(content) == NewlinesBefore(content, ClosingQuote(content)) + 1

\* '\n'.join(content.split('\n')[lineno:])
RestAfterLine(content, lineno) ==
    LET lines == SplitLines(content)
    IN  JoinLines(Slice(lines, lineno + 1, Len(lines) + 1))

\* the return on a SyntaxError
UnparsedResultLineZero(content) ==
    [raised |-> "none", docstring |-> SYNTAX_ERROR_DOCSTRING, rest |-> content,
     lineno |-> 0, node |-> "None"]
UnparsedResult(content) ==
    [raised |-> "none", docstring |-> SYNTAX_ERROR_DOCSTRING, rest |-> content,
     lineno |-> 1, node |-> "None"]

_get_docstring_and_rest(file) ==
    LET parsed == parse_source_file(file)
        node == parsed.node
        content == parsed.content
        cleaned == cleandoc(node.s)
        docstring == IF Len(node.s) > 0 /\ node.s[1] = NL THEN <<NL>> \o cleaned ELSE cleaned
        lineno == FirstStringEndRow(content)
    IN  IF node.node = "None" THEN UnparsedResult(content)
        ELSE IF ~node.has_docstring THEN [raised |-> "ExtensionError"]
        ELSE [raised |-> "none", docstring |-> docstring,
              rest |-> RestAfterLine(content, lineno), lineno |-> lineno + 1,
              node |-> "Module"]

----------------------------------------------------------------------------
\* The section pattern of split_code_and_text_blocks, under re.M:
\*   (?P<header_line>^#{20,}.*|^# ?%%.*)\s(?P<text_content>(?:^#.*\s?)*)

\* the number of '#' characters in the tokens i .. j-1
RECURSIVE HashesIn(_, _, _)
HashesIn(s, i, j) == IF i >= j THEN 0 ELSE HashCount(s[i]) + HashesIn(s, i + 1, j)

\* the least number of '#' that open a header line
MinHashes == 20

\* Where the header alternative stops before its greedy .* : after the run
\* of hashes (^#{20,}) or after the cell marker (^# ?%%).  0: neither matches.
HeaderPrefixEnd(s, i) ==
    LET h == SkipWhile(s, i, HashTokens)
        m == IF i + 1 <= Len(s) /\ s[i + 1] = " " THEN i + 2 ELSE i + 1
    IN  IF HashesIn(s, i, h) >= MinHashes THEN h
        ELSE IF s[i] = "#" /\ m <= Len(s) /\ s[m] = "%%" THEN m + 1
        ELSE 0

\* The position of the \s that follows the header line: the newline ending
\* the line, or, on a last line without one, the last whitespace the greedy
\* .* can give back.  0: none, the pattern does not match.
HeaderSpace(s, from) ==
    LET e == LineEnd(s, from)
        back == {r \in from .. Len(s) : s[r] \in Whitespace}
    IN  IF e <= Len(s) THEN e
        ELSE IF back = {} THEN 0 ELSE Max(back)

RECURSIVE TextContentEnd(_, _)
\* the text_content group from position p: whole comment lines, each with its newline
TextContentEnd(s, p) ==
    IF p <= Len(s) /\ AtLineStart(s, p) /\ s[p] \in HashTokens
    THEN LET e == LineEnd(s, p)
         IN  IF e <= Len(s) THEN TextContentEnd(s, e + 1) ELSE e
    ELSE p

SectionPattern(s, i) ==
    LET pre == HeaderPrefixEnd(s, i)
        sp == HeaderSpace(s, pre)
    IN  IF AtLineStart(s, i) /\ i <= Len(s) /\ pre # 0 /\ sp # 0
        THEN [matched |-> TRUE, start |-> i, text_start |-> sp + 1,
              end |-> TextContentEnd(s, sp + 1)]
        ELSE [matched |-> FALSE]

RECURSIVE NextSection(_, _)
\* the first match at or after pos (re.finditer resumes at the end of the last)
NextSection(s, pos) ==
    LET m == SectionPattern(s, pos)
    IN  IF pos > Len(s) THEN [matched |-> FALSE]
        ELSE IF m.matched THEN m
        ELSE NextSection(s, pos + 1)

----------------------------------------------------------------------------
(* dedent(re.sub('^#', '', text_content)).lstrip()                         *)

\* one line with a leading '#' removed
DropHash(line) ==
    IF Len(line) = 0 THEN line
    ELSE IF line[1] = "#" THEN Tail(line)
    ELSE IF line[1] = H20 THEN <<H19>> \o Tail(line)
    ELSE line

\* re.sub(sub_pat, '', text)
RemoveHashes(text) ==
    LET lines == SplitLines(text)
    IN  JoinLines([k \in 1 .. Len(lines) |-> DropHash(lines[k])])

\* textwrap.dedent: lines of blanks are emptied, the others lose the common margin
dedent(text) ==
    LET lines == SplitLines(text)
        solid == {k \in 1 .. Len(lines) : \E j \in 1 .. Len(lines[k]) : lines[k][j] \notin Blank}
        margin == IF solid = {} THEN 0 ELSE Min({SkipWhile(lines[k], 1, Blank) - 1 : k \in solid})
    IN  JoinLines([k \in 1 .. Len(lines) |->
                     IF k \in solid THEN DropFirst(lines[k], margin) ELSE <<>>])

TextBlockContent(text_content) == LStrip(dedent(RemoveHashes(text_content)))

----------------------------------------------------------------------------
(* split_code_and_text_blocks                                              *)

\* blocks.append((label, content, lineno)) under `if content.strip()`
PrependIfContent(blocks, label, content, lineno) ==
    IF HasNonSpace(content) THEN <<<<label, content, lineno>>>> \o blocks ELSE blocks
AppendIfContent(blocks, label, content, lineno) ==
    IF HasNonSpace(content) THEN Append(blocks, <<label, content, lineno>>) ELSE blocks

\* blocks = [('text', docstring, 1)]
DocstringBlock(docstring) == <<"text", docstring, 1>>

\* lineno += text.count('\n')
AdvanceLinenoAssigned(lineno, text) == CountNewlines(text)
AdvanceLineno(lineno, text) == lineno + CountNewlines(text)

RECURSIVE SplitLoop(_, _, _, _)
\* the for loop over the matches, resumed at pos_so_far, and what follows it
SplitLoop(rest, pos_so_far, lineno, blocks) ==
    LET match == NextSection(rest, pos_so_far)
        code_block_content == Slice(rest, pos_so_far, match.start)
        blocks1 == AppendIfContent(blocks, "code", code_block_content, lineno)
        lineno1 == AdvanceLineno(lineno, code_block_content) + 1
        text_content == Slice(rest, match.text_start, match.end)
        blocks2 == AppendIfContent(blocks1, "text", TextBlockContent(text_content), lineno1)
        lineno2 == AdvanceLineno(lineno1, text_content)
        remaining_content == Slice(rest, pos_so_far, Len(rest) + 1)
    IN  IF match.matched THEN SplitLoop(rest, match.end, lineno2, blocks2)
        ELSE AppendIfContent(blocks, "code", remaining_content, lineno)

split_code_and_text_blocks(file) ==
    LET got == _get_docstring_and_rest(file)
        conf == extract_file_config(got.rest)
    IN  IF got.raised # "none" THEN [raised |-> got.raised]
        ELSE IF conf.raised # "none" THEN [raised |-> conf.raised]
        ELSE [raised |-> "none", file_conf |-> conf.file_conf,
              blocks |-> SplitLoop(got.rest, 1, got.lineno, <<DocstringBlock(got.docstring)>>),
              node |-> got.node]

----------------------------------------------------------------------------
(* Inputs of the configuration specification: blocks of up to MaxConfLines *)
(* lines, joined by newlines (a last empty line is a trailing newline).     *)

MaxConfLines == 3

ConfLines ==
    { <<>>,                                                   \* blank line
      <<"x", " ", "=", " ", "1">>,                            \* x = 1
      <<"#", " ", "mkdocs_gallery_", "a", " ", "=", " ", "1">>, \* # mkdocs_gallery_a = 1
      <<"#", "mkdocs_gallery_", "a", "=", "1", "1">>,         \* #mkdocs_gallery_a=11
      <<"#", "mkdocs_gallery_", "b", "=", "a">>,              \* #mkdocs_gallery_b=a
      <<"#", "mkdocs_gallery_", "a", "=", "{[]}">>,           \* #mkdocs_gallery_a={[]}
      <<"#", "mkdocs_gallery_", "a">>,                        \* #mkdocs_gallery_a
      <<"#", "mkdocs_gallery_", "b", " ", "=">>,              \* #mkdocs_gallery_b =
      <<"#", "mkdocs_gallery_", "b", " ", "#", "mkdocs_gallery_", "a", "=", "1">>,
                                                              \* #mkdocs_gallery_b #mkdocs_gallery_a=1
      <<"#">> }                                               \* #

----------------------------------------------------------------------------
(* The configuration specification: a block of text on which              *)
(* extract_file_config and remove_config_comments are called.              *)

NotRun == [raised |-> "not run"]

MaxRemovals == 2

ConfInit ==
    /\ pc = "conf"
    /\ source_file = <<>>
    /\ result = NotRun
    /\ \E n \in 0 .. MaxConfLines :
          \E ls \in [1 .. n -> ConfLines] : code_block = JoinLines(ls)
    /\ removed = 0
    /\ file_conf = NotRun

\* file_conf = extract_file_config(code_block)
ExtractFileConfig ==
    /\ pc = "conf"
    /\ file_conf = NotRun
    /\ file_conf' = extract_file_config(code_block)
    /\ UNCHANGED <<pc, source_file, result, code_block, removed>>

\* code_block = remove_config_comments(code_block)
RemoveConfigComments ==
    /\ pc = "conf"
    /\ removed < MaxRemovals
    /\ code_block' = remove_config_comments(code_block)
    /\ removed' = removed + 1
    /\ file_conf' = NotRun
    /\ UNCHANGED <<pc, source_file, result>>

ConfNext == ExtractFileConfig \/ RemoveConfigComments

SpecConf == ConfInit /\ [][ConfNext]_vars

----------------------------------------------------------------------------
(* Inputs of the splitting specification: a first statement, then up to    *)
(* MaxLines lines, joined by '\n' (a last empty line is a trailing         *)
(* newline); the files of up to MaxCrlfLines lines also joined by '\r\n'.  *)

MaxLines == 4

MaxCrlfLines == 2

\* the lines of the first statement
Openings ==
    { << <<DQ3, "d", DQ3>> >>,                          \* """d"""
      << <<DQ3>>, <<"d">>, <<DQ3>> >>,                  \* three lines, opening with a newline
      << <<DQ3, "d">>, <<" ", "d", DQ3>> >>,            \* two lines, the second indented
      << <<DQ3, DQ3>> >>,                               \* the empty string
      << <<DQ3, "d">> >>,                               \* a string that is never closed
      << <<"x">> >> }                                   \* no docstring

FileLines ==
    { <<>>,                                             \* blank line
      <<"x">>,                                          \* x
      <<")">>,                                          \* ) : a SyntaxError
      <<H20>>,                                          \* 20 hashes
      <<"#", " ", "%%", " ", "d">>,                     \* # %% d
      <<"#", " ", "d">>,                                \* # d
      <<"#", "mkdocs_gallery_", "a", "=", "{[]}">> }    \* #mkdocs_gallery_a={[]}

RECURSIVE JoinWith(_, _)
\* sep.join(lines)
JoinWith(lines, sep) ==
    IF Len(lines) = 0 THEN <<>>
    ELSE IF Len(lines) = 1 THEN lines[1]
    ELSE lines[1] \o <<sep>> \o JoinWith(Tail(lines), sep)

----------------------------------------------------------------------------
(* The splitting specification: split_code_and_text_blocks on a file.      *)

Init ==
    /\ pc = "start"
    /\ \E o \in Openings, sep \in {NL, CRLF} :
          \E n \in 0 .. (IF sep = NL THEN MaxLines ELSE MaxCrlfLines) :
             \E ls \in [1 .. n -> FileLines] : source_file = JoinWith(o \o ls, sep)
    /\ result = NotRun
    /\ code_block = <<>>
    /\ removed = 0
    /\ file_conf = NotRun

\* result = split_code_and_text_blocks(source_file)
Split ==
    /\ pc = "start"
    /\ result' = split_code_and_text_blocks(source_file)
    /\ pc' = "done"
    /\ UNCHANGED <<source_file, code_block, removed, file_conf>>

Next == Split

Spec == Init /\ [][Next]_vars

----------------------------------------------------------------------------
(* Properties of split_code_and_text_blocks, checked under Spec.           *)

Returned == pc = "done" /\ result.raised = "none"

Content == parse_source_file(source_file).content

Unparsable == parse_source_file(source_file).node.node = "None"

StartLine(block) == block[3]

\* the 1-based number of the line of `text` that holds position q
TrueLine(text, q) == NewlinesBefore(text, q) + 1

RECURSIVE RegionStarts(_, _)
\* Where in `rest` the regions that become blocks begin, in order: a
\* candidate code segment with non-whitespace content, the comment lines
\* after a header line when they leave text, the segment after the last match.
RegionStarts(rest, pos) ==
    LET m == NextSection(rest, pos)
        code == Slice(rest, pos, m.start)
        text == Slice(rest, m.text_start, m.end)
    IN  IF m.matched
        THEN (IF HasNonSpace(code) THEN <<pos>> ELSE <<>>)
             \o (IF HasNonSpace(TextBlockContent(text)) THEN <<m.text_start>> ELSE <<>>)
             \o RegionStarts(rest, m.end)
        ELSE IF HasNonSpace(Slice(rest, pos, Len(rest) + 1)) THEN <<pos>> ELSE <<>>

\* C1: every block after the first carries as start_line the number, in the
\* normalized document, of the line on which its region begins.
C1_StartLineIsLineOfRegion ==
    Returned =>
        LET rest == _get_docstring_and_rest(source_file).rest
            offset == Len(Content) - Len(rest)
            starts == RegionStarts(rest, 1)
        IN  /\ Len(result.blocks) = Len(starts) + 1
            /\ \A k \in 1 .. Len(starts) :
                  StartLine(result.blocks[k + 1]) = TrueLine(Content, offset + starts[k])

\* C2: a returned block sequence is non-empty and begins with the block
\* ('text', docstring, 1), where docstring is what _get_docstring_and_rest
\* returned: the placeholder for an unparsable file, else the cleaned value
\* of the leading string with its opening newline put back.
C2_FirstBlockIsDocstring ==
    Returned =>
        LET node == parse_source_file(source_file).node
            docstring == IF Unparsable THEN SYNTAX_ERROR_DOCSTRING
                         ELSE IF Len(node.s) > 0 /\ node.s[1] = NL
                              THEN <<NL>> \o cleandoc(node.s)
                              ELSE cleandoc(node.s)
        IN  /\ Len(result.blocks) >= 1
            /\ result.blocks[1] = <<"text", docstring, 1>>
            /\ docstring = _get_docstring_and_rest(source_file).docstring

\* a parsed file whose split appended at least two blocks after the docstring
C2_Witness ==
    /\ Returned
    /\ ~Unparsable
    /\ Len(result.blocks) >= 3
    /\ result.blocks[1][2] = <<"d", NL, "d">>

\* C3: no block of a returned sequence has empty or whitespace-only content.
C3_NoBlankBlock ==
    Returned => \A k \in 1 .. Len(result.blocks) : HasNonSpace(result.blocks[k][2])

\* C4: the start lines of a returned sequence are all >= 1 and never decrease
\* from one block to the next.
C4_StartLinesNonDecreasing ==
    Returned =>
        /\ \A k \in 1 .. Len(result.blocks) : StartLine(result.blocks[k]) >= 1
        /\ \A k \in 1 .. Len(result.blocks) - 1 :
              StartLine(result.blocks[k]) <= StartLine(result.blocks[k + 1])

\* four blocks on strictly increasing lines, with a match in between that
\* left only part of its region as a block
C4_Witness ==
    /\ Returned
    /\ Len(result.blocks) >= 4
    /\ \A k \in 1 .. Len(result.blocks) - 1 :
          StartLine(result.blocks[k]) < StartLine(result.blocks[k + 1])
    /\ StartLine(result.blocks[3]) > StartLine(result.blocks[2]) + 1

TwoBlocks == << <<"text", SYNTAX_ERROR_DOCSTRING, 1>>, <<"code", Content, 1>> >>

\* C5, as claimed: an unparsable, non-empty file is returned, whatever its
\* lines, as the placeholder text block and one code block holding the whole
\* content, both at line 1.
C5_UnparsableGivesTwoBlocks ==
    (pc = "done" /\ Unparsable /\ Len(Content) > 0) =>
        /\ result.raised = "none"
        /\ result.blocks = TwoBlocks

\* C5, amended: the syntax error raises nothing (the call raises only where
\* extract_file_config does); when it returns, the first block is the
\* placeholder at line 1, and the sequence is the two blocks exactly when the
\* content holds no match of the section pattern and is not whitespace only.
C5_UnparsableSplitsLikeAnyRest ==
    (pc = "done" /\ Unparsable) =>
        /\ result.raised = extract_file_config(Content).raised
        /\ Returned =>
              /\ result.blocks[1] = <<"text", SYNTAX_ERROR_DOCSTRING, 1>>
              /\ (HasNonSpace(Content) /\ ~NextSection(Content, 1).matched)
                    <=> result.blocks = TwoBlocks

\* an unparsable file without section header, returned as the two blocks
C5_Witness ==
    /\ Returned
    /\ Unparsable
    /\ ~NextSection(Content, 1).matched
    /\ CountNewlines(Content) >= 2
    /\ result.blocks = TwoBlocks

----------------------------------------------------------------------------
(* Properties of extract_file_config and remove_config_comments, checked   *)
(* under SpecConf.                                                         *)

Extracted == pc = "conf" /\ file_conf # NotRun

Decodes(m) == m.has_value /\ literal_eval(m.value).exc = "none"

\* the mapping C6 describes: the names with a decodable valued match, each
\* with the value of the last such match
LastDecodedValues(text) ==
    LET ms == ConfigMatches(text)
        decoded == {k \in 1 .. Len(ms) : Decodes(ms[k])}
        last(name) == Max({k \in decoded : ms[k].name = name})
    IN  [name \in {ms[k].name : k \in decoded} |-> literal_eval(ms[last(name)].value).val]

\* C6: extract_file_config returns exactly the mapping from each name with a
\* decodable '=value' match to the decoded value of its last such match.
C6_ConfigIsLastDecodedValues ==
    Extracted =>
        /\ file_conf.raised = "none"
        /\ file_conf.file_conf = LastDecodedValues(code_block)

\* C7: extract_file_config never raises because of a value: each match whose
\* value does not decode gives one warning and nothing else.
C7_UndecodableValueOnlyWarns ==
    Extracted =>
        LET ms == ConfigMatches(code_block)
            failed == {k \in 1 .. Len(ms) : ms[k].has_value /\ ~Decodes(ms[k])}
        IN  /\ file_conf.raised = "none"
            /\ Len(file_conf.warnings) = Cardinality(failed)

\* the text of a match lies on one line: no newline in it but a last one
OnOneLine(s, m) == \A j \in m.start .. m.end - 2 : s[j] # NL

IsDirectiveLine(line) == INFILE_CONFIG_PATTERN(line, 1).matched

RECURSIVE IsSubsequence(_, _)
IsSubsequence(a, b) ==
    IF Len(a) = 0 THEN TRUE
    ELSE IF Len(b) = 0 THEN FALSE
    ELSE IF a[1] = b[1] THEN IsSubsequence(Tail(a), Tail(b))
    ELSE IsSubsequence(a, Tail(b))

OtherLines(text) == SelectSeq(SplitLines(text), LAMBDA line : ~IsDirectiveLine(line))

\* C8: every match of the directive pattern lies on one line, and a removal
\* keeps every line that is not a directive line, unchanged and in order.
C8_RemovalKeepsOtherLines ==
    [][removed' = removed + 1 =>
          /\ \A k \in 1 .. Len(ConfigMatches(code_block)) :
                OnOneLine(code_block, ConfigMatches(code_block)[k])
          /\ IsSubsequence(OtherLines(code_block), SplitLines(code_block'))]_vars

\* C9: the configuration extracted from a block whose directive comments were
\* removed is the empty mapping.
C9_NoConfigAfterRemoval ==
    (Extracted /\ removed >= 1) =>
        /\ file_conf.raised = "none"
        /\ file_conf.file_conf = EmptyConf

\* C10: removing the directive comments of a block they were already removed
\* from changes nothing.
C10_RemovalIsIdempotent ==
    [][(removed >= 1 /\ removed' = removed + 1) => code_block' = code_block]_vars

====
